---- MODULE Spec2Model ----
(***************************************************************************)
(* Gym RPG daily attendance tracker (src/app.py).                          *)
(*                                                                         *)
(* Calendar dates are day numbers (integers); one table row is a record    *)
(* [day, intensity, minutes, notes].  The columns id and created_at are    *)
(* written by add_checkin but never read by any derivation and are left    *)
(* out of the row.  Texts of the notes field are sequences of characters.  *)
(***************************************************************************)
EXTENDS Integers, Sequences, FiniteSets, TLC

(***************************************************************************)
(* State: the database, the clock and the script runs of the sessions.     *)
(***************************************************************************)
VARIABLES
  clock,      \* the date datetime.now(TZ).date() returns
  checkins,   \* the rows of the checkins table
  pc,         \* where each session's script run is
  click,      \* what started the run: "view", "submit" or "undo"
  form,       \* the submitted form values
  local,      \* the run's local variables: df, streak, xp of main(), today,
              \* already of log_panel(), and dates, the dates the run has
              \* read from the clock so far
  page,       \* what the session's last finished run rendered
  seen7,      \* history: a page of the session has shown streak_7 unlocked
  fn          \* the call under study in the specifications of the pure functions

vars == <<clock, checkins, pc, click, form, local, page, seen7, fn>>

Sessions == {1, 2}

(***************************************************************************)
(* Bounds of the model.                                                    *)
(***************************************************************************)
MaxDay == 1
StreakStartDay == 6
StreakMaxDay == 9
RenderMaxDay == 2
FnMaxDay == 5
FnSmallDay == 2
RunMaxDay == 17
MaxXp == 2100
MonthLen == 30
EpochDayOfMonth == 29

Min(a, b) == IF a < b THEN a ELSE b
Max(a, b) == IF a > b THEN a ELSE b

(***************************************************************************)
(* Game logic: the pure functions of src/app.py lines 98-209.              *)
(***************************************************************************)
INTENSITY_XP ==
  [l \in {"Minimum (showed up)", "Standard", "Hard", "Recovery / Mobility"} |->
     CASE l = "Minimum (showed up)" -> 20
       [] l = "Standard" -> 50
       [] l = "Hard" -> 80
       [] l = "Recovery / Mobility" -> 25]

\* INTENSITY_XP.get(label, 30)
BaseXp(label) == IF label \in DOMAIN INTENSITY_XP THEN INTENSITY_XP[label] ELSE 30
\* mutant: the bonus without its floor at zero
minutes_bonus_no_floor(minutes) == Min(30, (minutes \div 10) * 3)

\* min(30, max(0, int(minutes // 10) * 3)); // is floor division, as \div is
minutes_bonus(minutes) == Min(30, Max(0, (minutes \div 10) * 3))

\* floor(a*a / 2^26) for 0 <= a < 2^25, computed without leaving 32 bits
SquareHigh(a) ==
  LET a1 == a \div 8192
      a0 == a % 8192
  IN  a1 * a1 + ((2 * a1 * a0 + ((a0 * a0) \div 8192)) \div 8192)

\* a*a >= 2^k, where p = 2^k for k < 26 and p = 2^(k-26) from there on
SquareAtLeast(a, k, p) ==
  IF k >= 26 THEN SquareHigh(a) >= p ELSE a >= 8192 \/ a * a >= p

\* the largest j >= k with 2^j <= a*a, given 2^k <= a*a and p as above
RECURSIVE Log2OfSquareFrom(_, _, _)
Log2OfSquareFrom(a, k, p) ==
  LET p1 == IF k + 1 = 26 THEN 1 ELSE 2 * p
  IN  IF SquareAtLeast(a, k + 1, p1) THEN Log2OfSquareFrom(a, k + 1, p1) ELSE k

\* int(math.log2(n) * 10): the largest k with 2^k <= n^10, for 1 <= n <= 31
Log2Times10(n) == Log2OfSquareFrom(n * n * n * n * n, 0, 1)
\* mutant: the streak bonus without its cap
streak_bonus_uncapped(streak) == Log2Times10(streak + 1)

streak_bonus(streak) == Min(40, Log2Times10(streak + 1))

\* mutant: a curve that reaches level 2 at 200 XP
xp_needed_for_level_flatter(level) == 150 * (level - 1) * (level - 1) + 50 * (level - 1)

xp_needed_for_level(level) == 150 * (level - 1) * (level - 1) + 200 * (level - 1)

RECURSIVE LevelLoop(_, _)
LevelLoop(xp, level) ==
  IF xp >= xp_needed_for_level(level + 1) THEN LevelLoop(xp, level + 1) ELSE level

level_from_xp(xp) == LevelLoop(xp, 1)

RECURSIVE StreakLoop(_, _)
StreakLoop(days, d) == IF d \in days THEN 1 + StreakLoop(days, d - 1) ELSE 0
\* mutant: the streak always anchored at today
compute_streak_from_today(days, today) == StreakLoop(days, today)

compute_streak(days, today) ==
  LET anchor == IF today \in days THEN today ELSE today - 1
  IN  StreakLoop(days, anchor)

\* set(df["day"].tolist())
DaysOf(df) == {df[i].day : i \in 1..Len(df)}

\* today.replace(day=1); day 0 is the EpochDayOfMonth-th of a month
MonthStart(d) == d - ((d + EpochDayOfMonth - 1) % MonthLen)

RECURSIVE SumRecordXp(_, _)
SumRecordXp(df, i) ==
  IF i > Len(df) THEN 0
  ELSE BaseXp(df[i].intensity) + minutes_bonus(df[i].minutes) + SumRecordXp(df, i + 1)

\* mutant: the total kept in a variable that outlives the call, so that the
\* totals of the runs in flight are still in it
compute_xp_accumulating(df, now) ==
  IF Len(df) = 0 THEN 0
  ELSE SumRecordXp(df, 1) + streak_bonus(compute_streak(DaysOf(df), now))
       + local[1].xp + local[2].xp

\* compute_xp(df) with the date its datetime.now() call returns
compute_xp(df, now) ==
  IF Len(df) = 0 THEN 0
  ELSE SumRecordXp(df, 1) + streak_bonus(compute_streak(DaysOf(df), now))

\* month_count(df) with the date its datetime.now() call returns
month_count(df, now) ==
  IF Len(df) = 0 THEN 0
  ELSE Cardinality({i \in 1..Len(df) : df[i].day >= MonthStart(now)})

quest_status(df, now) ==
  LET days == IF Len(df) = 0 THEN {} ELSE DaysOf(df)
      last7 == {i \in 1..Len(df) : df[i].day >= now - 6 /\ df[i].day <= now}
      month == {i \in 1..Len(df) : df[i].day >= MonthStart(now)}
  IN  [week |-> <<Cardinality(last7), 5>>,
       month |-> <<Cardinality(month), 20>>,
       streak |-> <<compute_streak(days, now), 14>>]

AchievementKeys ==
  <<"first_blood", "streak_7", "streak_30", "month_14", "month_25", "xp_1000", "xp_5000">>

\* mutant: an unlocked flag that is kept once streak_7 has been unlocked
AchievementOkSticky(key, df, xp, streak, now) ==
  CASE key = "first_blood" -> Len(df) >= 1
    [] key = "streak_7" -> streak >= 7 \/ \E s \in Sessions : seen7[s]
    [] key = "streak_30" -> streak >= 30
    [] key = "month_14" -> month_count(df, now) >= 14
    [] key = "month_25" -> month_count(df, now) >= 25
    [] key = "xp_1000" -> xp >= 1000
    [] key = "xp_5000" -> xp >= 5000

\* the predicate of the achievement with this key
AchievementOk(key, df, xp, streak, now) ==
  CASE key = "first_blood" -> Len(df) >= 1
    [] key = "streak_7" -> streak >= 7
    [] key = "streak_30" -> streak >= 30
    [] key = "month_14" -> month_count(df, now) >= 14
    [] key = "month_25" -> month_count(df, now) >= 25
    [] key = "xp_1000" -> xp >= 1000
    [] key = "xp_5000" -> xp >= 5000

\* the unlocked / locked partition of achievements_panel
achievements_panel(df, xp, streak, now) ==
  LET ok(k) == AchievementOk(k, df, xp, streak, now)
      no(k) == ~AchievementOk(k, df, xp, streak, now)
  IN  [unlocked |-> SelectSeq(AchievementKeys, ok),
       locked |-> SelectSeq(AchievementKeys, no)]


(***************************************************************************)
(* Database: the checkins table (lines 21-93).  The day column is TEXT:    *)
(* add_checkin stores day.isoformat(), a fixed-width zero-padded decimal   *)
(* text, modelled by the two digits of the day number.                     *)
(***************************************************************************)
isoformat(d) == <<d \div 10, d % 10>>

\* pd.to_datetime(text).dt.date
to_date(text) == text[1] * 10 + text[2]

\* SQLite's comparison of two TEXT values: position by position
LexLessEq(a, b) ==
  \/ a = b
  \/ \E i \in 1..Min(Len(a), Len(b)) :
        /\ \A j \in 1..(i - 1) : a[j] = b[j]
        /\ a[i] < b[i]

\* str.strip() on a text of characters
RECURSIVE LStrip(_)
LStrip(t) == IF Len(t) > 0 /\ Head(t) = " " THEN LStrip(Tail(t)) ELSE t

RECURSIVE RStrip(_)
RStrip(t) ==
  IF Len(t) > 0 /\ t[Len(t)] = " " THEN RStrip(SubSeq(t, 1, Len(t) - 1)) ELSE t

strip(t) == RStrip(LStrip(t))

\* notes.strip() if notes else None
NotesValue(notes) ==
  IF Len(notes) > 0 THEN [null |-> FALSE, text |-> strip(notes)]
  ELSE [null |-> TRUE, text |-> <<>>]

\* SELECT 1 FROM checkins WHERE day = ? LIMIT 1
has_checkin(table, day) == \E r \in table : r.day = isoformat(day)

\* mutant: the day column without its UNIQUE constraint
add_checkin_no_unique(table, day, intensity, minutes, notes) ==
  [raised |-> FALSE,
   table |-> table \cup {[day |-> isoformat(day), intensity |-> intensity,
                          minutes |-> minutes, notes |-> NotesValue(notes)]}]

\* INSERT INTO checkins ...: the UNIQUE constraint on day makes SQLite raise
\* IntegrityError and leave the table as it was
add_checkin(table, day, intensity, minutes, notes) ==
  IF \E r \in table : r.day = isoformat(day)
  THEN [raised |-> TRUE, table |-> table]
  ELSE [raised |-> FALSE,
        table |-> table \cup {[day |-> isoformat(day), intensity |-> intensity,
                               minutes |-> minutes, notes |-> NotesValue(notes)]}]

\* mutant: the DELETE matching every day up to the given one
delete_checkin_up_to(table, day) ==
  {r \in table : ~LexLessEq(r.day, isoformat(day))}

\* DELETE FROM checkins WHERE day = ?
delete_checkin(table, day) == {r \in table : r.day # isoformat(day)}

\* SELECT ... ORDER BY day ASC, then the day column parsed back to dates
RECURSIVE OrderByDay(_)
OrderByDay(table) ==
  IF table = {} THEN <<>>
  ELSE LET first == CHOOSE r \in table : \A q \in table : LexLessEq(r.day, q.day)
       IN  <<first>> \o OrderByDay(table \ {first})

read_checkins(table) ==
  LET rows == OrderByDay(table)
  IN  [i \in 1..Len(rows) |->
         [day |-> to_date(rows[i].day), intensity |-> rows[i].intensity,
          minutes |-> rows[i].minutes, notes |-> rows[i].notes]]


(***************************************************************************)
(* The application: browser sessions running main() (lines 351-402).       *)
(* Every click starts a script run of the session; the runs of different   *)
(* sessions are threads that interleave at their database calls, and the   *)
(* clock moves on its own.  A run is cut at its database calls:            *)
(*   StartRun      lines 352-377  read_checkins, streak, xp, header        *)
(*   LogPanel      lines 305-316  today, already = has_checkin(today)      *)
(*   SubmitAlready, SubmitInsert  lines 318-324  the submitted form        *)
(*   UndoToday, RenderRest        lines 326-334 and 382-402                *)
(***************************************************************************)
\* what the form widgets of lines 312-314 send when left alone
DefaultForm == [intensity |-> "Standard", minutes |-> 35, notes |-> <<>>]

\* the form values a submission can carry (an excerpt of the widgets' ranges)
Forms == {DefaultForm, [intensity |-> "Hard", minutes |-> 40, notes |-> <<" ", "a", " ">>]}

NoQuests == [week |-> <<0, 5>>, month |-> <<0, 20>>, streak |-> <<0, 14>>]

\* kind: "none" before the first run, "full" for a page rendered to its end,
\* "error" for a page cut short by an uncaught exception
NoPage ==
  [kind |-> "none", undo |-> FALSE, warning |-> FALSE, dates |-> <<>>,
   streak |-> 0, xp |-> 0, level |-> 1, quests |-> NoQuests,
   unlocked |-> <<>>, locked |-> <<>>]

\* rows of the consecutive days first..last, as earlier runs logged them
LoggedDays(first, last) ==
  {[day |-> isoformat(d), intensity |-> DefaultForm.intensity,
    minutes |-> DefaultForm.minutes, notes |-> NotesValue(DefaultForm.notes)] :
     d \in first..last}

\* the locals of a session that is not in a run
NoLocals ==
  [df |-> <<>>, dates |-> <<>>, streak |-> 0, xp |-> 0, today |-> 0, already |-> FALSE]

NoCall == [op |-> "none"]

InitApp(day0, table, call) ==
  /\ fn = call
  /\ clock = day0
  /\ checkins = table
  /\ pc = [s \in Sessions |-> "idle"]
  /\ click = [s \in Sessions |-> "view"]
  /\ form = [s \in Sessions |-> DefaultForm]
  /\ local = [s \in Sessions |-> NoLocals]
  /\ page = [s \in Sessions |-> NoPage]
  /\ seen7 = [s \in Sessions |-> FALSE]

\* after init_db() on a new database file
Init == InitApp(0, {}, NoCall)

\* the locals of a finished run are dead; the click stays for st.rerun()
EndRun(s, next) ==
  /\ pc' = [pc EXCEPT ![s] = next]
  /\ click' = [click EXCEPT ![s] = IF next = "rerun" THEN @ ELSE "view"]
  /\ form' = [form EXCEPT ![s] = DefaultForm]
  /\ local' = [local EXCEPT ![s] = NoLocals]

\* lines 352-377: a click (or st.rerun()) starts main()
StartRun(s, clicks, forms) ==
  /\ pc[s] \in {"idle", "rerun"}
  /\ \E c \in clicks, f \in forms :
       /\ c = "submit" => pc[s] = "idle" /\ page[s].kind # "none"
       /\ c = "undo" => pc[s] = "idle" /\ page[s].undo
       /\ c # "submit" => f = DefaultForm
       /\ click' = [click EXCEPT ![s] = c]
       /\ form' = [form EXCEPT ![s] = f]
  /\ pc' = [pc EXCEPT ![s] = "log_panel"]
  /\ LET d == read_checkins(checkins)
     IN  local' = [local EXCEPT ![s] =
                     [NoLocals EXCEPT !.df = d,
                                      !.dates = <<clock>>,
                                      !.streak = compute_streak(DaysOf(d), clock),
                                      !.xp = compute_xp(d, clock)]]
  /\ page' = [page EXCEPT ![s] = NoPage]
  /\ UNCHANGED <<clock, checkins, seen7, fn>>

\* lines 305-316
LogPanel(s) ==
  /\ pc[s] = "log_panel"
  /\ local' = [local EXCEPT ![s].today = clock,
                             ![s].dates = Append(@, clock),
                             ![s].already = has_checkin(checkins, clock)]
  /\ pc' = [pc EXCEPT ![s] = IF click[s] = "submit" /\ ~has_checkin(checkins, clock)
                             THEN "insert" ELSE "buttons"]
  /\ UNCHANGED <<clock, checkins, click, form, page, seen7, fn>>

\* lines 321-324: add_checkin, st.success, st.rerun; the IntegrityError of
\* add_checkin is caught nowhere and ends the run with the exception shown
SubmitInsert(s) ==
  /\ pc[s] = "insert"
  /\ LET r == add_checkin(checkins, local[s].today, form[s].intensity, form[s].minutes,
                          form[s].notes)
     IN  /\ checkins' = r.table
         /\ IF r.raised
            THEN /\ page' = [page EXCEPT ![s] = [NoPage EXCEPT !.kind = "error"]]
                 /\ EndRun(s, "idle")
            ELSE /\ page' = page
                 /\ EndRun(s, "rerun")
  /\ UNCHANGED <<clock, seen7, fn>>

\* lines 331-334: if already and st.button("Undo today's check-in")
UndoToday(s) ==
  /\ pc[s] = "buttons"
  /\ local[s].already /\ click[s] = "undo"
  /\ checkins' = delete_checkin(checkins, local[s].today)
  /\ EndRun(s, "rerun")
  /\ UNCHANGED <<clock, page, seen7, fn>>

\* lines 318-320, 326-330 and 382-402: the warning of a submission when
\* already, no undo; quests, achievements and the rest of the page
RenderRest(s) ==
  /\ pc[s] = "buttons"
  /\ ~(local[s].already /\ click[s] = "undo")
  /\ LET a == achievements_panel(local[s].df, local[s].xp, local[s].streak, clock)
     IN  /\ page' = [page EXCEPT ![s] =
                       [kind |-> "full", undo |-> local[s].already,
                        warning |-> (click[s] = "submit" /\ local[s].already),
                        dates |-> Append(local[s].dates, clock),
                        streak |-> local[s].streak, xp |-> local[s].xp,
                        level |-> level_from_xp(local[s].xp),
                        quests |-> quest_status(local[s].df, clock),
                        unlocked |-> a.unlocked, locked |-> a.locked]]
         /\ seen7' = [seen7 EXCEPT ![s] =
                        @ \/ \E i \in 1..Len(a.unlocked) : a.unlocked[i] = "streak_7"]
  /\ EndRun(s, "idle")
  /\ UNCHANGED <<clock, checkins, fn>>

\* midnight in the app's time zone
DayAdvance(last) ==
  /\ clock < last
  /\ clock' = clock + 1
  /\ UNCHANGED <<checkins, pc, click, form, local, page, seen7, fn>>

Clicks == {"view", "submit", "undo"}

Next ==
  \/ \E s \in Sessions : StartRun(s, Clicks, Forms)
  \/ \E s \in Sessions : LogPanel(s)
  \/ \E s \in Sessions : SubmitInsert(s)
  \/ \E s \in Sessions : UndoToday(s)
  \/ \E s \in Sessions : RenderRest(s)
  \/ DayAdvance(MaxDay)

Spec == Init /\ [][Next]_vars


(***************************************************************************)
(* One session over a longer stretch of days, started on the day after six *)
(* consecutive logged days.                                                *)
(***************************************************************************)
InitStreak == InitApp(StreakStartDay, LoggedDays(0, StreakStartDay - 1), NoCall)

NextStreak ==
  \/ StartRun(1, Clicks, Forms)
  \/ LogPanel(1)
  \/ SubmitInsert(1)
  \/ UndoToday(1)
  \/ RenderRest(1)
  \/ DayAdvance(StreakMaxDay)

SpecStreak == InitStreak /\ [][NextStreak]_vars

(***************************************************************************)
(* Two sessions that only view the page, over a history nobody changes.    *)
(***************************************************************************)
InitRender ==
  \E last \in -1..RenderMaxDay : InitApp(RenderMaxDay, LoggedDays(0, last), NoCall)

NextRender ==
  \/ \E s \in Sessions : StartRun(s, {"view"}, {DefaultForm})
  \/ \E s \in Sessions : LogPanel(s)
  \/ \E s \in Sessions : RenderRest(s)
  \/ DayAdvance(RenderMaxDay + 2)

SpecRender == InitRender /\ [][NextRender]_vars


(***************************************************************************)
(* The pure functions on their own: the initial state draws the arguments  *)
(* of one call from bounded sets, and the actions make the call.           *)
(***************************************************************************)
AppIdle ==
  UNCHANGED <<clock, checkins, pc, click, form, local, page, seen7>>

\* compute_streak(days, today), lines 133-141
InitStreakFn ==
  \E S \in SUBSET (0..FnMaxDay), t \in 0..(FnMaxDay + 2) :
    InitApp(0, {}, [op |-> "compute_streak", days |-> S, today |-> t,
                    done |-> FALSE, ret |-> 0])

CallComputeStreak ==
  /\ fn.op = "compute_streak" /\ ~fn.done
  /\ fn' = [fn EXCEPT !.done = TRUE, !.ret = compute_streak(fn.days, fn.today)]
  /\ AppIdle

SpecStreakFn == InitStreakFn /\ [][CallComputeStreak]_vars

\* level_from_xp(xp), lines 114-120, one iteration of its loop at a time
InitLevel ==
  \E x \in 0..MaxXp :
    InitApp(0, {}, [op |-> "level_from_xp", xp |-> x, level |-> 1, pc |-> "while"])

\* line 118 true, line 119
LevelIncrement ==
  /\ fn.op = "level_from_xp" /\ fn.pc = "while"
  /\ fn.xp >= xp_needed_for_level(fn.level + 1)
  /\ fn' = [fn EXCEPT !.level = @ + 1]
  /\ AppIdle

\* line 118 false, line 120
LevelReturn ==
  /\ fn.op = "level_from_xp" /\ fn.pc = "while"
  /\ ~(fn.xp >= xp_needed_for_level(fn.level + 1))
  /\ fn' = [fn EXCEPT !.pc = "return"]
  /\ AppIdle

NextLevel == LevelIncrement \/ LevelReturn

\* a call that was started runs on: the loop is the only thread of the call
SpecLevel == InitLevel /\ [][NextLevel]_vars /\ WF_vars(NextLevel)

\* compute_xp(df), lines 168-184, on tables written by add_checkin and read
\* back by read_checkins; any label and any minutes can be in a row
XpRecords ==
  <<[intensity |-> "Standard", minutes |-> 35, notes |-> <<>>],
    [intensity |-> "Hard", minutes |-> 40, notes |-> <<"a", " ">>],
    [intensity |-> "Yoga", minutes |-> -200, notes |-> <<" ">>],
    [intensity |-> "Minimum (showed up)", minutes |-> 120, notes |-> <<>>],
    [intensity |-> "Recovery / Mobility", minutes |-> 5, notes |-> <<>>]>>

\* the table with row pick[d] of XpRecords on day d, and no row where pick[d] = 0
RECURSIVE TableOf(_, _)
TableOf(pick, d) ==
  IF d \notin DOMAIN pick THEN {}
  ELSE IF pick[d] = 0 THEN TableOf(pick, d + 1)
  ELSE add_checkin(TableOf(pick, d + 1), d, XpRecords[pick[d]].intensity,
                   XpRecords[pick[d]].minutes, XpRecords[pick[d]].notes).table

SmallTables == {TableOf(pick, 0) : pick \in [0..FnSmallDay -> 0..Len(XpRecords)]}

RunTables == {LoggedDays(a, b) : a \in 0..1, b \in 0..RunMaxDay}

LastDay(table) ==
  IF table = {} THEN 0
  ELSE CHOOSE d \in 0..99 : /\ has_checkin(table, d)
                            /\ \A e \in (d + 1)..99 : ~has_checkin(table, e)

InitXp ==
  \E table \in SmallTables \cup RunTables :
    \E t \in Max(0, LastDay(table) - 1)..(LastDay(table) + 2) :
      InitApp(0, {}, [op |-> "compute_xp", table |-> table, today |-> t,
                      step |-> "call", xp |-> 0, level |-> 1,
                      before |-> 0, added |-> <<>>])

CallComputeXp ==
  /\ fn.op = "compute_xp" /\ fn.step = "call"
  /\ fn' = [fn EXCEPT !.step = "done",
                      !.xp = compute_xp(read_checkins(fn.table), fn.today),
                      !.level = level_from_xp(compute_xp(read_checkins(fn.table), fn.today))]
  /\ AppIdle

\* one more check-in, on a day the table has no row for, and compute_xp again
AddAndComputeXp ==
  /\ fn.op = "compute_xp" /\ fn.step = "done" /\ fn.added = <<>>
  /\ \E d \in 0..(LastDay(fn.table) + 2), i \in 1..Len(XpRecords) :
       /\ ~has_checkin(fn.table, d)
       /\ LET r == XpRecords[i]
              t == add_checkin(fn.table, d, r.intensity, r.minutes, r.notes).table
          IN  fn' = [fn EXCEPT !.table = t,
                               !.before = fn.xp,
                               !.added = <<[day |-> d, intensity |-> r.intensity,
                                            minutes |-> r.minutes]>>,
                               !.xp = compute_xp(read_checkins(t), fn.today),
                               !.level = level_from_xp(compute_xp(read_checkins(t), fn.today))]
  /\ AppIdle

NextXp == CallComputeXp \/ AddAndComputeXp

SpecXp == InitXp /\ [][NextXp]_vars


(***************************************************************************)
(* Properties.                                                             *)
(***************************************************************************)
InSeq(x, seq) == \E i \in 1..Len(seq) : seq[i] = x

\* the days of the rows of a table
TableDays(table) == {to_date(r.day) : r \in table}

\* the length of the longest run of consecutive days, all in S, that ends at day a
LongestRunEndingAt(S, a) ==
  CHOOSE k \in 0..100 : /\ \A i \in 0..(k - 1) : (a - i) \in S
                        /\ (a - k) \notin S

\* the streak as the specification words it
CurrentStreak(S, t) == LongestRunEndingAt(S, IF t \in S THEN t ELSE t - 1)

\* C1: in every reachable state the check-in history holds at most one record
\* per calendar day; the table and the history read from it agree on that.
OneCheckInPerDay ==
  /\ \A r1, r2 \in checkins : to_date(r1.day) = to_date(r2.day) => r1 = r2
  /\ Len(read_checkins(checkins)) = Cardinality(TableDays(checkins))

\* a duplicate insert was rejected, and two days are logged
OneCheckInPerDayWitness ==
  /\ \E s \in Sessions : page[s].kind = "error"
  /\ Cardinality(checkins) = 2
  /\ clock >= 1

\* a submission of session s is settled by this step
SubmissionSettled(s) ==
  /\ click[s] = "submit"
  /\ \/ pc[s] = "insert" /\ pc'[s] # "insert"
     \/ pc[s] = "buttons" /\ pc'[s] # "buttons"

ShownAlreadyLogged(p) == p.kind = "full" /\ p.warning

\* C2: a submission settled for a day that already has a record ends as
\* "already logged" and leaves the table as it was.
SecondInsertAlreadyExists ==
  [][\A s \in Sessions :
       (SubmissionSettled(s) /\ has_checkin(checkins, local[s].today))
         => (checkins' = checkins /\ ShownAlreadyLogged(page'[s]))]_vars

\* C9: of two submissions that both read "not logged" for the same day, one
\* inserts its row, and the other, whose insert finds the row there, leaves the
\* table as it was and is shown "already logged", not an error.
RaceLoserShownAlreadyLogged ==
  [][\A s \in Sessions :
       (pc[s] = "insert" /\ pc'[s] # "insert")
         => IF has_checkin(checkins, local[s].today)
            THEN checkins' = checkins /\ ShownAlreadyLogged(page'[s])
            ELSE /\ Cardinality(checkins') = Cardinality(checkins) + 1
                 /\ has_checkin(checkins', local[s].today)
                 /\ pc'[s] = "rerun"]_vars

\* session s deletes in this step
UndoActs(s) == pc[s] = "buttons" /\ click[s] = "undo" /\ local[s].already /\ pc'[s] = "rerun"

\* C10 as stated, with "today" the current day: undo needs today's record,
\* removes exactly the rows of the current day, no step removes or alters a
\* row of a day before the current day, and every new row is of the current day.
UndoFrameByClock ==
  [][/\ \A s \in Sessions :
          UndoActs(s) => checkins' = {r \in checkins : to_date(r.day) # clock}
     /\ \A r \in checkins : to_date(r.day) < clock => r \in checkins'
     /\ \A r \in checkins' \ checkins : to_date(r.day) = clock]_vars

\* C10, amended: undo runs only when the run read a record for its today,
\* it removes exactly the rows of the day the run read as today (none: the
\* table stays as it is); every step that changes the table is the insert or
\* the undo of a run and touches only the day that run read as today, which
\* is never after the current day.
UndoFrameByRunToday ==
  [][/\ \A s \in Sessions :
          UndoActs(s) => checkins' = {r \in checkins : to_date(r.day) # local[s].today}
     /\ \A s \in Sessions :
          (UndoActs(s) /\ ~has_checkin(checkins, local[s].today)) => checkins' = checkins
     /\ checkins' # checkins =>
          \E s \in Sessions :
            /\ pc[s] \in {"insert", "buttons"} /\ pc'[s] = "rerun"
            /\ local[s].today <= clock
            /\ pc[s] = "buttons" => local[s].already /\ click[s] = "undo"
            /\ \A r \in checkins : to_date(r.day) # local[s].today => r \in checkins'
            /\ \A r \in checkins' \ checkins : to_date(r.day) = local[s].today]_vars

\* an undo has just acted and the row of an earlier day is still there
UndoFrameWitness ==
  \E s \in Sessions :
    /\ pc[s] = "rerun" /\ click[s] = "undo"
    /\ ~has_checkin(checkins, clock)
    /\ \E r \in checkins : to_date(r.day) < clock

\* C5: on every rendered page streak_7 is in the unlocked list exactly when
\* the current streak of the history is at least 7 and in the locked list
\* otherwise, whatever earlier pages showed; the page's streak is that streak.
Streak7UnlockedIffStreak7 ==
  \A s \in Sessions :
    page[s].kind = "full" =>
      LET cur == CurrentStreak(TableDays(checkins), page[s].dates[1])
      IN  /\ page[s].streak = cur
          /\ InSeq("streak_7", page[s].unlocked) <=> cur >= 7
          /\ InSeq("streak_7", page[s].locked) <=> cur < 7

\* streak_7 was shown unlocked, a day passed with no check-in, and the page
\* rendered after it shows streak 0 and streak_7 locked, with the seven days
\* still in the history
Streak7RelockedWitness ==
  \E s \in Sessions :
    /\ seen7[s]
    /\ page[s].kind = "full" /\ page[s].streak = 0
    /\ InSeq("streak_7", page[s].locked)
    /\ (0..6) \subseteq TableDays(checkins)

PageResults(p) == <<p.streak, p.xp, p.level, p.quests, p.unlocked, p.locked>>

StreakIsLongestRun ==
  (fn.op = "compute_streak" /\ fn.done) =>
    LET S == fn.days
        D == fn.today
    IN  /\ fn.ret = LongestRunEndingAt(S, IF D \in S THEN D ELSE D - 1)
        /\ (D \notin S /\ (D - 1) \notin S) => fn.ret = 0
        /\ S = {D - 2, D - 1, D} => fn.ret = 3
        /\ S = {D - 2, D - 1} => fn.ret = 2

\* a streak of two that ends yesterday, with an older day that is not part of it
StreakWitness ==
  /\ fn.op = "compute_streak" /\ fn.done
  /\ fn.today \notin fn.days
  /\ fn.ret = 2
  /\ Cardinality(fn.days) = 3

\* the XP requirement of a level as the specification gives it
Requirement(L) == 150 * (L - 1) * (L - 1) + 200 * (L - 1)

XpNeverDecreases ==
  (fn.op = "compute_xp" /\ fn.added # <<>>) => fn.xp >= fn.before

\* a check-in with an unrecognized label and negative minutes was added to a
\* history that has check-ins, and XP grew by the default base XP or more
XpNeverDecreasesWitness ==
  /\ fn.op = "compute_xp" /\ fn.added # <<>>
  /\ fn.added[1].intensity = "Yoga" /\ fn.added[1].minutes < 0
  /\ fn.before > 0
  /\ fn.xp >= fn.before + 30

\* base XP and minutes bonus of one row as the specification gives them
RowXp(r) ==
  (CASE r.intensity = "Minimum (showed up)" -> 20
     [] r.intensity = "Standard" -> 50
     [] r.intensity = "Hard" -> 80
     [] r.intensity = "Recovery / Mobility" -> 25
     [] OTHER -> 30)
  + (LET b == (r.minutes \div 10) * 3
     IN  IF b < 0 THEN 0 ELSE IF b > 30 THEN 30 ELSE b)

RECURSIVE TableXp(_)
TableXp(table) ==
  IF table = {} THEN 0
  ELSE LET r == CHOOSE q \in table : TRUE IN RowXp(r) + TableXp(table \ {r})

\* min(40, floor(log2(streak + 1) * 10)) for the streaks 0, 1, 2, ...
StreakBonusValues ==
  <<0, 10, 15, 20, 23, 25, 28, 30, 31, 33, 34, 35, 37, 38, 39,
    40, 40, 40, 40, 40, 40, 40, 40, 40, 40, 40, 40, 40, 40, 40, 40>>

\* C7: total XP is the sum over the records of base XP (30 for an unknown
\* label) plus minutes bonus, plus one streak bonus
\* min(40, floor(log2(streak + 1) * 10)) of the current streak, at most 40;
\* [(0, Standard, 35), (1, Hard, 40)] with today = 1 gives 166 and level 1.
XpIsSumPlusOneStreakBonus ==
  (fn.op = "compute_xp" /\ fn.step = "done") =>
    LET cur == CurrentStreak(TableDays(fn.table), fn.today)
        bonus == fn.xp - TableXp(fn.table)
    IN  /\ bonus = StreakBonusValues[cur + 1]
        /\ bonus <= 40
        /\ fn.level = level_from_xp(fn.xp)
        /\ (/\ fn.today = 1
            /\ fn.table = {[day |-> isoformat(0), intensity |-> "Standard", minutes |-> 35,
                            notes |-> [null |-> TRUE, text |-> <<>>]],
                           [day |-> isoformat(1), intensity |-> "Hard", minutes |-> 40,
                            notes |-> [null |-> FALSE, text |-> <<"a">>]]})
             => (cur = 2 /\ fn.xp = 166 /\ fn.level = 1)

\* the two-record example has been computed: 59 + 92 + 15
XpExampleWitness ==
  /\ fn.op = "compute_xp" /\ fn.step = "done"
  /\ fn.today = 1
  /\ TableDays(fn.table) = {0, 1}
  /\ fn.xp = 166 /\ fn.level = 1
  /\ fn.added = <<>>

====
